---- MODULE Spec2Model ----
(***************************************************************************)
(* A model of forth_times_the_charm (src/src/main.rs): the Machine with    *)
(* its stack and definitions, the native operations, Machine::lex,         *)
(* Machine::exec, Machine::run and the read loop of main.                  *)
(*                                                                         *)
(* Text is modelled as text: a line, a word and a macro body are sequences *)
(* of one-character strings, so that split_whitespace, itertools::join,    *)
(* str::parse::<i64> and the "{}" formatting of println! are computed.     *)
(* The i64 of the program is modelled by a two's complement integer of     *)
(* Bits bits (TLC's integers are 32 bits wide, so 64 is out of reach).     *)
(***************************************************************************)
EXTENDS Integers, Sequences, FiniteSets, TLC

VARIABLES
    stack,            \* Machine.stack: Vec<i64>, the top is the last element
    definitions,      \* Machine.definitions: HashMap<String, Definition>
    out,              \* what println! has written to stdout, one entry per line
    calls,            \* the active calls of Machine::exec, the innermost last
    result,           \* "Ok", or how the process ended: a ForthError or "Panic"
    pc,               \* "readline": main waits for a line; "exec"; "exited"
    overflow_checks,  \* the build: TRUE for debug (overflow panics), FALSE for release (wraps)
    nlines,           \* the number of lines main has read
    line,             \* the text of the line main read last
    pre,              \* stack, definitions and out when that line was read
    last              \* the step taken last: its arm, its token and the stack before it

vars ==
    <<stack, definitions, out, calls, result, pc, overflow_checks, nlines, line, pre, last>>

(***************************************************************************)
(* Bounds of the model.                                                    *)
(***************************************************************************)
Bits == 9          \* the width of the machine integer standing for i64
MaxLines == 2      \* main reads at most this many lines in a session
MaxDepth == 8      \* at most this many nested calls of exec
MaxFuel == 60      \* steps a line is followed for when it is run as a whole

I64Min == -(2 ^ (Bits - 1))
I64Max == (2 ^ (Bits - 1)) - 1

(***************************************************************************)
(* Text.                                                                   *)
(***************************************************************************)
Digits == <<"0", "1", "2", "3", "4", "5", "6", "7", "8", "9">>

IsDigit(c) == \E i \in 1..10 : Digits[i] = c

DigitVal(c) == (CHOOSE i \in 1..10 : Digits[i] = c) - 1

IsWhitespace(c) == c \in {" ", "\t", "\n"}

Last(s) == s[Len(s)]

Front(s) == SubSeq(s, 1, Len(s) - 1)

RECURSIVE DecNat(_)
DecNat(n) ==
    IF n < 10 THEN <<Digits[n + 1]>>
    ELSE DecNat(n \div 10) \o <<Digits[(n % 10) + 1]>>

\* "{}" of an i64: the decimal digits, with a minus sign for a negative value.
Display(n) == IF n < 0 THEN <<"-">> \o DecNat(-n) ELSE DecNat(n)

\* The digits of a literal, accumulated as from_str_radix does: the sign is
\* applied to each digit and the running value is checked against the range.
RECURSIVE ParseDigits(_, _, _)
ParseDigits(ds, acc, sign) ==
    IF ds = <<>> THEN [ok |-> TRUE, n |-> acc]
    ELSE IF ~IsDigit(Head(ds)) THEN [ok |-> FALSE, n |-> 0]
    ELSE LET v == acc * 10 + sign * DigitVal(Head(ds))
         IN  IF v < I64Min \/ v > I64Max THEN [ok |-> FALSE, n |-> 0]
             ELSE ParseDigits(Tail(ds), v, sign)

\* word.parse::<i64>(): an optional sign, then at least one digit, in range.
ParseI64(word) ==
    IF word = <<>> THEN [ok |-> FALSE, n |-> 0]
    ELSE IF Head(word) \in {"+", "-"} THEN
        IF Len(word) = 1 THEN [ok |-> FALSE, n |-> 0]
        ELSE ParseDigits(Tail(word), 0, IF Head(word) = "-" THEN -1 ELSE 1)
    ELSE ParseDigits(word, 0, 1)

\* input.split_whitespace(): the maximal runs of characters that are not whitespace.
RECURSIVE SplitFrom(_, _, _)
SplitFrom(s, cur, acc) ==
    IF s = <<>> THEN (IF cur = <<>> THEN acc ELSE Append(acc, cur))
    ELSE IF IsWhitespace(Head(s)) THEN
        SplitFrom(Tail(s), <<>>, IF cur = <<>> THEN acc ELSE Append(acc, cur))
    ELSE SplitFrom(Tail(s), Append(cur, Head(s)), acc)

SplitWhitespace(s) == SplitFrom(s, <<>>, <<>>)

\* itertools::join(words, sep)
RECURSIVE Join(_, _)
Join(words, sep) ==
    IF words = <<>> THEN <<>>
    ELSE IF Len(words) = 1 THEN words[1]
    ELSE words[1] \o sep \o Join(Tail(words), sep)

(***************************************************************************)
(* Definition, Keyword, Token.                                             *)
(***************************************************************************)
Native(f) == [kind |-> "Native", func |-> f, body |-> <<>>]

Tokens(s) == [kind |-> "Tokens", func |-> "", body |-> s]

Number(n) == [type |-> "Number", n |-> n, def |-> Native(""), kw |-> ""]

Op(d) == [type |-> "Op", n |-> 0, def |-> d, kw |-> ""]

Keyword(k) == [type |-> "Keyword", n |-> 0, def |-> Native(""), kw |-> k]

\* Keyword::try_from: "None" stands for Err(()).
KeywordTryFrom(word) ==
    IF word = <<"i", "f">> THEN "If"
    ELSE IF word = <<"e", "l", "s", "e">> THEN "Else"
    ELSE IF word = <<"t", "h", "e", "n">> THEN "Then"
    ELSE IF word = <<"d", "o">> THEN "Do"
    ELSE "None"

(***************************************************************************)
(* The native operations. Each takes the stack and returns the stack it    *)
(* leaves, its result and what it printed.                                 *)
(***************************************************************************)
Ret(s, r) == [stack |-> s, res |-> r, printed |-> <<>>]

\* Vec::pop
Pop(s) ==
    IF s = <<>> THEN [some |-> FALSE, v |-> 0, rest |-> <<>>]
    ELSE [some |-> TRUE, v |-> Last(s), rest |-> Front(s)]

Wrap(v) == ((v - I64Min) % (2 ^ Bits)) + I64Min

\* The value v of lhs + rhs, lhs - rhs or lhs * rhs pushed on s: out of range
\* it panics in a build with overflow checks and wraps in one without.
PushArith(s, v) ==
    IF v >= I64Min /\ v <= I64Max THEN Ret(Append(s, v), "Ok")
    ELSE IF overflow_checks THEN Ret(s, "Panic")
    ELSE Ret(Append(s, Wrap(v)), "Ok")

add(s) ==
    LET lhs == Pop(s)
        rhs == Pop(lhs.rest)
    IN  IF lhs.some /\ rhs.some THEN PushArith(rhs.rest, lhs.v + rhs.v)
        ELSE Ret(rhs.rest, "StackUnderflow")

sub(s) ==
    LET rhs == Pop(s)
        lhs == Pop(rhs.rest)
    IN  IF lhs.some /\ rhs.some THEN PushArith(lhs.rest, lhs.v - rhs.v)
        ELSE Ret(lhs.rest, "StackUnderflow")

mul(s) ==
    LET lhs == Pop(s)
        rhs == Pop(lhs.rest)
    IN  IF lhs.some /\ rhs.some THEN PushArith(rhs.rest, lhs.v * rhs.v)
        ELSE Ret(rhs.rest, "StackUnderflow")

Abs(v) == IF v < 0 THEN -v ELSE v

\* i64::checked_div: None for a zero divisor and for the one quotient that
\* overflows; otherwise the quotient truncated toward zero.
CheckedDiv(lhs, rhs) ==
    IF rhs = 0 \/ (lhs = I64Min /\ rhs = -1) THEN [some |-> FALSE, v |-> 0]
    ELSE [some |-> TRUE,
          v |-> IF (lhs < 0) = (rhs < 0) THEN Abs(lhs) \div Abs(rhs)
                ELSE -(Abs(lhs) \div Abs(rhs))]

div(s) ==
    LET rhs == Pop(s)
        lhs == Pop(rhs.rest)
        res == CheckedDiv(lhs.v, rhs.v)
    IN  IF lhs.some /\ rhs.some THEN
            IF res.some THEN Ret(Append(lhs.rest, res.v), "Ok")
            ELSE Ret(lhs.rest, "DivByZero")
        ELSE Ret(lhs.rest, "StackUnderflow")

print(s) ==
    IF s # <<>> THEN [stack |-> s, res |-> "Ok", printed |-> <<Display(Last(s))>>]
    ELSE Ret(s, "StackUnderflow")

dup(s) ==
    IF s # <<>> THEN Ret(Append(s, Last(s)), "Ok")
    ELSE Ret(s, "StackUnderflow")

drop(s) == Ret(Pop(s).rest, "Ok")

swap(s) ==
    LET rhs == Pop(s)
        lhs == Pop(rhs.rest)
    IN  IF lhs.some /\ rhs.some THEN Ret(Append(Append(lhs.rest, rhs.v), lhs.v), "Ok")
        ELSE Ret(lhs.rest, "StackUnderflow")

\* What the comparison closure rel tests of lhs and rhs.
Holds(rel, lhs, rhs) ==
    CASE rel = "eq" -> lhs = rhs
      [] rel = "ne" -> lhs # rhs
      [] rel = "lt" -> lhs < rhs
      [] rel = "gt" -> lhs > rhs

\* A faulty Compare: lhs is popped first, so the operands are exchanged.
CompareSwapped(s, rel) ==
    LET lhs == Pop(s)
        rhs == Pop(lhs.rest)
    IN  IF rhs.some /\ lhs.some
        THEN Ret(Append(rhs.rest, IF Holds(rel, lhs.v, rhs.v) THEN 1 ELSE 0), "Ok")
        ELSE Ret(rhs.rest, "StackUnderflow")

\* The four comparison closures: rhs is popped first, then lhs.
Compare(s, rel) ==
    LET rhs == Pop(s)
        lhs == Pop(rhs.rest)
    IN  IF rhs.some /\ lhs.some
        THEN Ret(Append(lhs.rest, IF Holds(rel, lhs.v, rhs.v) THEN 1 ELSE 0), "Ok")
        ELSE Ret(lhs.rest, "StackUnderflow")

eq(s) == Compare(s, "eq")

ne(s) == Compare(s, "ne")

lt(s) == Compare(s, "lt")

gt(s) == Compare(s, "gt")

\* func(&mut self.stack) for the function a Native definition holds.
CallNative(f, s) ==
    CASE f = "add" -> add(s)
      [] f = "sub" -> sub(s)
      [] f = "mul" -> mul(s)
      [] f = "div" -> div(s)
      [] f = "dup" -> dup(s)
      [] f = "print" -> print(s)
      [] f = "drop" -> drop(s)
      [] f = "swap" -> swap(s)
      [] f = "eq" -> eq(s)
      [] f = "ne" -> ne(s)
      [] f = "lt" -> lt(s)
      [] f = "gt" -> gt(s)

\* The definitions Machine::new installs.
NativeDefinitions ==
    (<<"+">> :> Native("add")) @@ (<<"-">> :> Native("sub")) @@
    (<<"*">> :> Native("mul")) @@ (<<"/">> :> Native("div")) @@
    (<<"d", "u", "p">> :> Native("dup")) @@ (<<".">> :> Native("print")) @@
    (<<"d", "r", "o", "p">> :> Native("drop")) @@
    (<<"s", "w", "a", "p">> :> Native("swap")) @@
    (<<"=">> :> Native("eq")) @@ (<<"<", ">">> :> Native("ne")) @@
    (<<"<">> :> Native("lt")) @@ (<<">">> :> Native("gt"))

(***************************************************************************)
(* Machine::lex.                                                           *)
(***************************************************************************)
\* A faulty Insert: an entry that exists is kept (entry().or_insert()).
InsertKeepOld(defs, name, d) ==
    [w \in (DOMAIN defs) \cup {name} |-> IF w \in DOMAIN defs THEN defs[w] ELSE d]

\* HashMap::insert: the entry of name is added or overwritten.
Insert(defs, name, d) ==
    [w \in (DOMAIN defs) \cup {name} |-> IF w = name THEN d ELSE defs[w]]

Interpreting == [kind |-> "Interpreting", current |-> <<>>]

Defining(current) == [kind |-> "Defining", current |-> current]

LexRet(r, word, tokens, defs) ==
    [res |-> r, word |-> word, tokens |-> tokens, definitions |-> defs]

\* A faulty LexLoop: in Interpreting mode the keywords and `:` are tried
\* before the dictionary.
RECURSIVE LexLoopKeywordFirst(_, _, _, _)
LexLoopKeywordFirst(words, mode, tokens, defs) ==
    IF words = <<>> THEN LexRet("Ok", <<>>, tokens, defs)
    ELSE
      LET word == Head(words)
          number == ParseI64(word)
      IN
      IF mode.kind = "Interpreting" THEN
          IF number.ok THEN
              LexLoopKeywordFirst(Tail(words), mode, Append(tokens, Number(number.n)), defs)
          ELSE IF KeywordTryFrom(word) # "None" THEN
              LexLoopKeywordFirst(Tail(words), mode,
                                  Append(tokens, Keyword(KeywordTryFrom(word))), defs)
          ELSE IF word = <<":">> THEN
              LexLoopKeywordFirst(Tail(words), Defining(<<>>), tokens, defs)
          ELSE IF word \in DOMAIN defs THEN
              LexLoopKeywordFirst(Tail(words), mode, Append(tokens, Op(defs[word])), defs)
          ELSE LexRet("WordNotDefined", word, <<>>, defs)
      ELSE
          IF word = <<";">> THEN
              IF mode.current = <<>> THEN LexRet("Panic", <<>>, <<>>, defs)
              ELSE
                  LET name == Head(mode.current)
                      spaced_back == Join(Tail(mode.current), <<" ">>)
                  IN  LexLoopKeywordFirst(Tail(words), Interpreting, tokens,
                                          Insert(defs, name, Tokens(spaced_back)))
          ELSE
              LexLoopKeywordFirst(Tail(words), Defining(Append(mode.current, word)),
                                  tokens, defs)

\* One turn of the loop over the words, for each word left.
RECURSIVE LexLoop(_, _, _, _)
LexLoop(words, mode, tokens, defs) ==
    IF words = <<>> THEN LexRet("Ok", <<>>, tokens, defs)
    ELSE
      LET word == Head(words)
          number == ParseI64(word)
      IN
      IF mode.kind = "Interpreting" THEN
          IF number.ok THEN
              LexLoop(Tail(words), mode, Append(tokens, Number(number.n)), defs)
          ELSE IF word \in DOMAIN defs THEN
              LexLoop(Tail(words), mode, Append(tokens, Op(defs[word])), defs)
          ELSE IF KeywordTryFrom(word) # "None" THEN
              LexLoop(Tail(words), mode, Append(tokens, Keyword(KeywordTryFrom(word))), defs)
          ELSE IF word = <<":">> THEN
              LexLoop(Tail(words), Defining(<<>>), tokens, defs)
          ELSE LexRet("WordNotDefined", word, <<>>, defs)
      ELSE
          IF word = <<";">> THEN
              IF mode.current = <<>> THEN
                  \* name is None and name.unwrap() panics
                  LexRet("Panic", <<>>, <<>>, defs)
              ELSE
                  LET name == Head(mode.current)
                      spaced_back == Join(Tail(mode.current), <<" ">>)
                  IN  LexLoop(Tail(words), Interpreting, tokens,
                              Insert(defs, name, Tokens(spaced_back)))
          ELSE
              LexLoop(Tail(words), Defining(Append(mode.current, word)), tokens, defs)

\* A faulty lex: the definition blocks of the input are installed first, so
\* every Op holds the entry the dictionary has at the end of the line.
lexHoisted(defs, input) ==
    LexLoop(SplitWhitespace(input), Interpreting, <<>>,
            LexLoop(SplitWhitespace(input), Interpreting, <<>>, defs).definitions)

lex(defs, input) == LexLoop(SplitWhitespace(input), Interpreting, <<>>, defs)

(***************************************************************************)
(* Machine::exec and Machine::run. A machine m is the record of the        *)
(* program's state; each call of exec in progress is a record of the       *)
(* tokens its loop has still to take and of its mode_stack.                *)
(***************************************************************************)
Normal == [kind |-> "Normal", tokens |-> <<>>, capture |-> FALSE]

\* ExecMode::IfTrue(CaptureMode { tokens, capture }) and ExecMode::IfFalse(..)
IfTrue(tokens, capture) == [kind |-> "IfTrue", tokens |-> tokens, capture |-> capture]

IfFalse(tokens, capture) == [kind |-> "IfFalse", tokens |-> tokens, capture |-> capture]

\* CaptureMode::push
CaptureModePush(mode, token) ==
    IF mode.capture THEN [mode EXCEPT !.tokens = Append(mode.tokens, token)]
    ELSE mode

\* The entry of exec: a call with a mode_stack holding Normal alone.
Call(tokens) == [tokens |-> tokens, mode_stack |-> <<Normal>>]

Cur(m) == Last(m.calls)

Tok(m) == Head(Cur(m).tokens)

Mode(m) == Last(Cur(m).mode_stack)

\* The loop of the innermost call takes its next token.
Advance(m) ==
    [m EXCEPT !.calls = Front(m.calls) \o <<[Cur(m) EXCEPT !.tokens = Tail(Cur(m).tokens)]>>]

\* The mode on top of the innermost call's mode_stack is replaced.
SetMode(m, mode) ==
    [m EXCEPT !.calls = Front(m.calls) \o
        <<[Cur(m) EXCEPT !.mode_stack = Front(Cur(m).mode_stack) \o <<mode>>]>>]

PushMode(m, mode) ==
    [m EXCEPT !.calls = Front(m.calls) \o
        <<[Cur(m) EXCEPT !.mode_stack = Append(Cur(m).mode_stack, mode)]>>]

PopMode(m) ==
    [m EXCEPT !.calls = Front(m.calls) \o
        <<[Cur(m) EXCEPT !.mode_stack = Front(Cur(m).mode_stack)]>>]

\* An error returned through every `?` up to main, or a panic: the process ends.
Fail(m, r) == [m EXCEPT !.result = r, !.pc = "exited"]

\* A faulty run: the body of a Tokens definition is lexed and not executed.
RunNoExec(m, definition) ==
    IF definition.kind = "Native" THEN
        LET r == CallNative(definition.func, m.stack)
            m1 == [m EXCEPT !.stack = r.stack, !.out = m.out \o r.printed]
        IN  IF r.res = "Ok" THEN m1 ELSE Fail(m1, r.res)
    ELSE
        LET toks == lex(m.definitions, definition.body)
            m1 == [m EXCEPT !.definitions = toks.definitions]
        IN  IF toks.res = "Ok" THEN m1 ELSE Fail(m1, toks.res)

\* Machine::run
run(m, definition) ==
    IF definition.kind = "Native" THEN
        LET r == CallNative(definition.func, m.stack)
            m1 == [m EXCEPT !.stack = r.stack, !.out = m.out \o r.printed]
        IN  IF r.res = "Ok" THEN m1 ELSE Fail(m1, r.res)
    ELSE
        LET toks == lex(m.definitions, definition.body)
            m1 == [m EXCEPT !.definitions = toks.definitions]
        IN  IF toks.res = "Ok" THEN [m1 EXCEPT !.calls = Append(m.calls, Call(toks.tokens))]
            ELSE Fail(m1, toks.res)

\* A faulty Keyword::If: only the condition 1 is true.
KeywordIfOnlyOne(m) ==
    LET condition == Pop(m.stack)
    IN  IF condition.some THEN
            IF condition.v = 1
            THEN PushMode([m EXCEPT !.stack = condition.rest], IfTrue(<<>>, TRUE))
            ELSE PushMode([m EXCEPT !.stack = condition.rest], IfFalse(<<>>, FALSE))
        ELSE Fail(m, "StackUnderflow")

\* Keyword::If, written three times in exec (Normal, IfFalse, IfTrue): the
\* condition is popped from the stack and a capture mode is pushed.
KeywordIf(m) ==
    LET condition == Pop(m.stack)
    IN  IF condition.some THEN
            IF condition.v # 0
            THEN PushMode([m EXCEPT !.stack = condition.rest], IfTrue(<<>>, TRUE))
            ELSE PushMode([m EXCEPT !.stack = condition.rest], IfFalse(<<>>, FALSE))
        ELSE Fail(m, "StackUnderflow")

\* A faulty Keyword::Then: under a capture frame the tokens of the mode are
\* handed to that frame, to be executed in the order of the line.
KeywordThenInOrder(m) ==
    LET old == Mode(m)
        m1 == PopMode(m)
    IN  IF Mode(m1).kind = "Normal"
        THEN [m1 EXCEPT !.calls = Append(m1.calls, Call(old.tokens))]
        ELSE SetMode(m1, IF Mode(m1).capture
                         THEN [Mode(m1) EXCEPT !.tokens = Mode(m1).tokens \o old.tokens]
                         ELSE Mode(m1))

\* A faulty Keyword::Then: the tokens of the mode are executed and the mode is
\* left on the mode_stack.
KeywordThenNoPop(m) ==
    [m EXCEPT !.calls = Append(m.calls, Call(Mode(m).tokens))]

\* Keyword::Then in IfFalse and in IfTrue: the mode is popped and its tokens
\* are executed by a new call of exec.
KeywordThen(m) ==
    LET old == Mode(m)
        m1 == PopMode(m)
    IN  [m1 EXCEPT !.calls = Append(m1.calls, Call(old.tokens))]

\* The arm of `match (mode, token)` that the next token takes.
Arm(m) ==
    LET mode == Mode(m).kind
        token == Tok(m)
    IN  IF token.type = "Number" THEN <<mode, "Number">>
        ELSE IF token.type = "Op" THEN <<mode, "Op">>
        ELSE <<mode, token.kw>>

\* A faulty ExecToken: an `if` met in an IfFalse frame pushes a frame and
\* leaves its condition on the stack.
ExecTokenLazyIf(m) ==
    LET arm == Arm(m)
        token == Tok(m)
        m1 == Advance(m)
    IN  CASE arm = <<"Normal", "Number">> -> [m1 EXCEPT !.stack = Append(m.stack, token.n)]
          [] arm = <<"Normal", "Op">> -> run(m1, token.def)
          [] arm = <<"Normal", "If">> -> KeywordIf(m1)
          [] arm \in {<<"Normal", "Else">>, <<"Normal", "Then">>} -> Fail(m1, "Panic")
          [] arm[2] = "Do" -> Fail(m1, "Panic")
          [] arm[1] # "Normal" /\ arm[2] \in {"Number", "Op"} ->
                SetMode(m1, CaptureModePush(Mode(m1), token))
          [] arm = <<"IfFalse", "Else">> -> SetMode(m1, [Mode(m1) EXCEPT !.capture = TRUE])
          [] arm = <<"IfFalse", "Then">> -> KeywordThen(m1)
          [] arm = <<"IfFalse", "If">> -> PushMode(m1, IfFalse(<<>>, FALSE))
          [] arm = <<"IfTrue", "Else">> -> SetMode(m1, [Mode(m1) EXCEPT !.capture = FALSE])
          [] arm = <<"IfTrue", "Then">> -> KeywordThen(m1)
          [] arm = <<"IfTrue", "If">> -> KeywordIf(m1)

\* One turn of the loop `for token in tokens` of the innermost call.
ExecToken(m) ==
    LET arm == Arm(m)
        token == Tok(m)
        m1 == Advance(m)
    IN  CASE arm = <<"Normal", "Number">> -> [m1 EXCEPT !.stack = Append(m.stack, token.n)]
          [] arm = <<"Normal", "Op">> -> run(m1, token.def)
          [] arm = <<"Normal", "If">> -> KeywordIf(m1)
          [] arm \in {<<"Normal", "Else">>, <<"Normal", "Then">>} -> Fail(m1, "Panic")
          [] arm[2] = "Do" -> Fail(m1, "Panic")
          [] arm[1] # "Normal" /\ arm[2] \in {"Number", "Op"} ->
                SetMode(m1, CaptureModePush(Mode(m1), token))
          [] arm = <<"IfFalse", "Else">> -> SetMode(m1, [Mode(m1) EXCEPT !.capture = TRUE])
          [] arm = <<"IfFalse", "Then">> -> KeywordThen(m1)
          [] arm = <<"IfFalse", "If">> -> KeywordIf(m1)
          [] arm = <<"IfTrue", "Else">> -> SetMode(m1, [Mode(m1) EXCEPT !.capture = FALSE])
          [] arm = <<"IfTrue", "Then">> -> KeywordThen(m1)
          [] arm = <<"IfTrue", "If">> -> KeywordIf(m1)

\* A faulty ExecOk: a call whose loop is over does not return.
ExecOkStuck(m) == m

\* A faulty ExecOk: a call whose loop is over with a frame open closes the
\* frame as `then` does, executing the tokens it holds.
ExecOkFlush(m) ==
    IF Len(Cur(m).mode_stack) > 1 THEN KeywordThen(m)
    ELSE IF Len(m.calls) = 1 THEN [m EXCEPT !.calls = <<>>, !.pc = "readline"]
    ELSE [m EXCEPT !.calls = Front(m.calls)]

\* The loop of the innermost call is over: exec returns Ok(()) to its caller,
\* and the outermost call to main, which waits for the next line.
ExecOk(m) ==
    IF Len(m.calls) = 1 THEN [m EXCEPT !.calls = <<>>, !.pc = "readline"]
    ELSE [m EXCEPT !.calls = Front(m.calls)]

\* Whether the next token makes exec call itself (through run, or at `then`).
CallsExec(m) ==
    \/ Arm(m) = <<"Normal", "Op">> /\ Tok(m).def.kind = "Tokens"
    \/ Arm(m) \in {<<"IfFalse", "Then">>, <<"IfTrue", "Then">>}

\* The numbers of the literals a line starts with.
RECURSIVE LeadingNumbers(_)
LeadingNumbers(words) ==
    IF words = <<>> \/ ~ParseI64(Head(words)).ok THEN <<>>
    ELSE <<ParseI64(Head(words)).n>> \o LeadingNumbers(Tail(words))

\* A faulty ProcessLine: words are executed as they are lexed, so the literals
\* before an undefined word are on the stack when lex fails.
ProcessLineStreaming(m, input) ==
    LET toks == lex(m.definitions, input)
        m1 == [m EXCEPT !.definitions = toks.definitions]
    IN  IF toks.res = "Ok" THEN [m1 EXCEPT !.calls = <<Call(toks.tokens)>>, !.pc = "exec"]
        ELSE Fail([m1 EXCEPT !.stack = m.stack \o LeadingNumbers(SplitWhitespace(input))],
                  toks.res)

\* main, on Ok(line): machine.lex(&line)? and then machine.exec(toks)?
ProcessLine(m, input) ==
    LET toks == lex(m.definitions, input)
        m1 == [m EXCEPT !.definitions = toks.definitions]
    IN  IF toks.res = "Ok" THEN [m1 EXCEPT !.calls = <<Call(toks.tokens)>>, !.pc = "exec"]
        ELSE Fail(m1, toks.res)

\* One step of a machine that is executing.
Step(m) == IF Cur(m).tokens = <<>> THEN ExecOk(m) ELSE ExecToken(m)

\* A machine followed until main waits for the next line or the process has
\* ended; "exhausted" when that takes more than fuel steps or MaxDepth calls.
RECURSIVE RunToEnd(_, _)
RunToEnd(m, fuel) ==
    IF m.pc # "exec" THEN m
    ELSE IF fuel = 0 THEN [m EXCEPT !.pc = "exhausted"]
    ELSE IF Cur(m).tokens # <<>> /\ CallsExec(m) /\ Len(m.calls) >= MaxDepth
         THEN [m EXCEPT !.pc = "exhausted"]
    ELSE RunToEnd(Step(m), fuel - 1)

\* A whole line: lex, exec and everything exec calls.
RunLine(m, input) == RunToEnd(ProcessLine(m, input), MaxFuel)

(***************************************************************************)
(* The words and lines the line-supplier hands to main.                    *)
(***************************************************************************)
w_if == <<"i", "f">>
w_else == <<"e", "l", "s", "e">>
w_then == <<"t", "h", "e", "n">>
w_do == <<"d", "o">>
w_colon == <<":">>
w_semi == <<";">>
w_add == <<"+">>
w_sub == <<"-">>
w_mul == <<"*">>
w_div == <<"/">>
w_dup == <<"d", "u", "p">>
w_drop == <<"d", "r", "o", "p">>
w_swap == <<"s", "w", "a", "p">>
w_print == <<".">>
w_eq == <<"=">>
w_ne == <<"<", ">">>
w_lt == <<"<">>
w_gt == <<">">>
w_double == <<"d", "o", "u", "b", "l", "e">>
w_w == <<"w">>
w_v == <<"v">>
w_foo == <<"f", "o", "o">>
w_noop == <<"n", "o", "o", "p">>
w_f == <<"f">>
w_cd == <<"c", "d">>
w_loop == <<"l", "o", "o", "p">>

\* The text of a line made of these words.
Text(words) == Join(words, <<" ">>)

\* The literal of n.
Lit(n) == Display(n)

\* if_gauntlet of tests/basics.rs
Gauntlet ==
    Text(<<Lit(1), Lit(1), w_if, Lit(2), Lit(2), w_if, Lit(3), w_else, Lit(4), w_then,
           w_else, Lit(5), Lit(5), w_if, Lit(6), w_else, Lit(7), w_then, w_then, w_print>>)

\* The other lines of tests/basics.rs.
TestLines ==
    { Text(<<Lit(10), Lit(20), w_lt, w_if, Lit(1), w_else, Lit(0), w_then, w_print>>),
      Text(<<Lit(10), Lit(10), w_eq, w_print>>),
      Text(<<Lit(10), Lit(20), w_ne, w_print>>),
      Text(<<Lit(10), Lit(20), w_lt, w_print>>),
      Text(<<Lit(10), Lit(20), w_gt, w_print>>),
      Text(<<w_colon, w_double, w_dup, w_add, w_semi, Lit(10), w_double, w_print>>),
      Text(<<Lit(10), w_dup, w_add, w_print>>),
      Text(<<Lit(20), Lit(10), w_div, w_print>>),
      Text(<<Lit(10), Lit(20), w_mul, w_print>>),
      Text(<<Lit(40), Lit(10), w_sub, w_print>>),
      Text(<<Lit(10), Lit(20), w_add, w_print>>) }

\* Values a line pushes: zero, small values of both signs and the two ends of the range.
Values == {I64Min, -7, -1, 0, 1, 2, 7, I64Max}

\* Lines that only push values: none, one or two.
PushLines ==
    {<<>>} \cup {Text(<<Lit(a)>>) : a \in Values}
           \cup {Text(<<Lit(a), Lit(b)>>) : a \in Values, b \in Values}

\* The words bound to native operations by Machine::new.
NativeWords ==
    {w_add, w_sub, w_mul, w_div, w_dup, w_drop, w_swap, w_print, w_eq, w_ne, w_lt, w_gt}

\* Lines of one native word, and of one keyword.
NativeLines == {Text(<<w>>) : w \in NativeWords}

KeywordLines == {Text(<<w>>) : w \in {w_if, w_else, w_then, w_do}}

\* The branches of the conditionals: numbers and native words only.
Branches ==
    { <<>>, <<Lit(7)>>, <<Lit(7), w_dup>>, <<w_add>>, <<w_print>>, <<Lit(0), w_div>> }

CondValues == {I64Min, -1, 0, 1, 2}

\* `c if A else B then` and `c if A then`
CondLines ==
    {Text(<<Lit(c), w_if>> \o A \o <<w_else>> \o B \o <<w_then>>) :
        c \in CondValues, A \in Branches, B \in Branches}
    \cup {Text(<<Lit(c), w_if>> \o A \o <<w_then>>) : c \in CondValues, A \in Branches}

\* The bodies of the definitions of w.
Bodies ==
    { <<>>, <<w_dup, w_add>>, <<Lit(2), w_mul>>, <<w_print>>, <<w_add>>,
      <<Lit(0), w_if, Lit(7), w_then>>, <<w_if>>, <<w_foo>>, <<Lit(1), w_foo>> }

DefineLines == {Text(<<w_colon, w_w>> \o body \o <<w_semi>>) : body \in Bodies}

\* Lines that use w: at top level and in the branches of a conditional.
UseLines ==
    { Text(<<w_w>>), Text(<<Lit(5), w_w, w_print>>), Text(<<Lit(3), Lit(4), w_w>>),
      Text(<<Lit(5), Lit(1), w_if, w_w, w_then>>),
      Text(<<Lit(5), Lit(0), w_if, Lit(1), w_else, w_w, w_then>>),
      Text(<<Lit(5), Lit(0), w_if, w_w, w_then>>),
      Text(<<Lit(1), w_w, Lit(5), w_then>>),
      Text(<<w_foo>>), Text(<<Lit(5), w_foo>>) }

\* Definitions of names that a later line defines again.
RedefineSetups ==
    { Text(<<w_colon, w_w, Lit(1), w_semi>>),
      Text(<<w_colon, w_w, Lit(1), w_semi, w_colon, w_v, w_w, w_semi>>),
      Text(<<w_colon, Lit(5), Lit(1), w_semi>>) }

\* Lines that define a name again and use it, directly or through v.
RedefineLines ==
    { Text(<<w_colon, w_w, Lit(2), w_semi, w_w>>),
      Text(<<w_colon, w_w, Lit(2), w_semi, w_v>>),
      Text(<<w_w, w_colon, w_w, Lit(2), w_semi, w_w>>),
      Text(<<w_colon, w_add, w_sub, w_semi, Lit(7), Lit(2), w_add>>),
      Text(<<w_colon, Lit(5), Lit(2), w_semi, Lit(5)>>),
      Text(<<Lit(5), w_print>>) }

\* Lines with a keyword where no test has one: `do`, and an `if` left open.
StrayLines ==
    { Text(<<Lit(1), w_if, w_do>>), Text(<<Lit(0), w_if, w_do>>),
      Text(<<Lit(1), w_if, Lit(7)>>), Text(<<Lit(0), w_if, w_else, Lit(7)>>) }

\* Conditionals nested in a branch of a conditional, the conditions pushed first.
NestedLines ==
    {Text(<<Lit(a), Lit(b), w_if, Lit(2), w_if, Lit(3), w_else, Lit(4), w_then,
            w_else, Lit(5), w_then, w_print>>) : a \in {0, 1}, b \in {0, 1}}

\* Definition blocks with no word, with a name alone and left open, and a name
\* defined twice on a line with a use after each definition.
BlockLines ==
    { Text(<<w_colon, w_semi>>), Text(<<Lit(7), w_colon, w_semi, Lit(2)>>),
      Text(<<w_colon, w_noop, w_semi>>), Text(<<w_colon, w_noop, w_semi, Lit(7), w_noop>>),
      Text(<<Lit(7), w_colon, w_noop, Lit(2)>>),
      Text(<<w_colon, w_f, Lit(1), w_semi, w_f, w_colon, w_f, Lit(2), w_semi, w_f>>) }

\* The bodies of a name that a line defines twice.
SnapBodies == { <<>>, <<Lit(1)>>, <<Lit(2)>>, <<w_dup>>, <<w_drop>>, <<w_f>> }

\* `: f B1 ; 7 f : f B2 ; f`
SnapLine(b1, b2) ==
    Text(<<w_colon, w_f>> \o b1 \o <<w_semi, Lit(7), w_f, w_colon, w_f>> \o b2 \o <<w_semi, w_f>>)

SnapLines == {SnapLine(b1, b2) : b1 \in SnapBodies, b2 \in SnapBodies}

\* Definitions named as a keyword or as the marker `:`.
MarkerWords == {w_if, w_else, w_then, w_do, w_colon}

MarkerSetups == {Text(<<w_colon, w, Lit(7), w_semi>>) : w \in MarkerWords}

\* Lines that use such a name.
MarkerLines ==
    {Text(<<w>>) : w \in MarkerWords}
    \cup { Text(<<Lit(1), w_if, Lit(2), w_else, Lit(3), w_then>>),
           Text(<<w_colon, w_w, Lit(2), w_semi, w_w>>) }

\* What stands in the branch that is not selected: numbers, words and
\* conditionals, well nested.
SkippedBodies ==
    { <<>>, <<Lit(7)>>, <<w_add>>, <<w_print>>, <<Lit(7), w_dup>>,
      <<w_if, Lit(5), w_then>>, <<Lit(7), w_if, Lit(5), w_else, Lit(6), w_then>>,
      <<w_if, w_else, Lit(5), w_then>> }

\* What is pushed before the condition of such a conditional.
SkipPrefixes == { <<>>, <<Lit(1)>>, <<Lit(0)>>, <<Lit(7), Lit(2)>> }

\* `p 0 if X then`
SkipThenLine(p, X) == Text(p \o <<Lit(0), w_if>> \o X \o <<w_then>>)

\* `p c if A else X then`
SkipElseLine(p, c, A, X) == Text(p \o <<Lit(c), w_if>> \o A \o <<w_else>> \o X \o <<w_then>>)

SkipConds == {1, -1}

SkipTaken == { <<>>, <<Lit(3)>> }

SkipLines ==
    {SkipThenLine(p, X) : p \in SkipPrefixes, X \in SkippedBodies}
    \cup UNION {{SkipElseLine(p, c, A, X) : p \in SkipPrefixes, X \in SkippedBodies} :
                  c \in SkipConds, A \in SkipTaken}

\* Words that invoke themselves: inside a branch, always, and through another word.
RecursiveSetups ==
    { Text(<<w_colon, w_cd, w_dup, w_if, Lit(1), w_sub, w_cd, w_then, w_semi>>),
      Text(<<w_colon, w_loop, w_loop, w_semi>>),
      Text(<<w_colon, w_w, w_v, w_semi, w_colon, w_v, Lit(1), w_w, w_semi>>) }

\* The values cd is started with.
Starts == {0, 1, 2, -1}

RecursiveLines ==
    {Text(<<Lit(n), w_cd>>) : n \in Starts}
    \cup { Text(<<w_loop>>), Text(<<Lit(7), w_w>>), Text(<<Lit(7), w_print>>) }

\* Lines that end with a conditional open, and lines read after them.
OpenLines ==
    { Text(<<Lit(5), Lit(1), w_if, Lit(7), w_print>>),
      Text(<<Lit(5), Lit(0), w_if, Lit(7), w_else, Lit(8)>>),
      Text(<<Lit(5), Lit(1), Lit(1), w_if, Lit(7), w_if, Lit(8)>>),
      Text(<<Lit(5), Lit(1), w_if, Lit(7), w_else, w_print>>) }

AfterOpenLines == { Text(<<w_then>>), Text(<<Lit(9), w_then>>), Text(<<w_print>>), Text(<<Lit(9)>>) }

\* A conditional in the branch taken of a conditional: `a 1 if x if y then then`
OrderLines ==
    {Text(<<Lit(a), Lit(1), w_if, Lit(2), w_if, Lit(3), w_then, w_then>>) : a \in {0, 1, 2}}
    \cup { Text(<<Lit(1), Lit(1), w_if, Lit(2), w_print, w_if, Lit(3), w_print, w_then, w_then>>) }

\* The push lines after which main may read a conditional.
ShortPushLines == {<<>>, Text(<<Lit(7)>>), Text(<<Lit(2), Lit(7)>>)}

\* The lines main may read as its (n + 1)-th line, after the line prev.
LinesAt(n, prev) ==
    IF n = 0 THEN
        {Gauntlet} \cup TestLines \cup NestedLines \cup PushLines \cup DefineLines
            \cup RedefineSetups \cup BlockLines \cup MarkerSetups \cup SkipLines
            \cup RecursiveSetups \cup OpenLines \cup OrderLines \cup SnapLines
    ELSE IF n = 1 THEN
        IF prev \in ShortPushLines
            THEN NativeLines \cup KeywordLines \cup CondLines \cup StrayLines
        ELSE IF prev \in PushLines THEN NativeLines \cup KeywordLines
        ELSE IF prev \in DefineLines THEN UseLines
        ELSE IF prev \in RedefineSetups THEN RedefineLines
        ELSE IF prev \in MarkerSetups THEN MarkerLines
        ELSE IF prev \in RecursiveSetups THEN RecursiveLines
        ELSE IF prev \in OpenLines THEN AfterOpenLines
        ELSE {Text(<<w_print>>)}
    ELSE {Text(<<w_print>>), Text(<<w_then>>)}

(***************************************************************************)
(* The state machine.                                                      *)
(***************************************************************************)
\* The machine the variables hold.
M ==
    [stack |-> stack, definitions |-> definitions, out |-> out,
     calls |-> calls, result |-> result, pc |-> pc]

Set(m) ==
    /\ stack' = m.stack
    /\ definitions' = m.definitions
    /\ out' = m.out
    /\ calls' = m.calls
    /\ result' = m.result
    /\ pc' = m.pc

\* A step that takes no token, for the variable last.
Did(who, what) == [arm |-> <<who, what>>, token |-> Keyword("None"), stack |-> stack]

\* Machine::new(), and main before its first readline.
Init ==
    /\ stack = <<>>
    /\ definitions = NativeDefinitions
    /\ out = <<>>
    /\ calls = <<>>
    /\ result = "Ok"
    /\ pc = "readline"
    /\ overflow_checks \in BOOLEAN
    /\ nlines = 0
    /\ line = <<>>
    /\ pre = [stack |-> <<>>, definitions |-> NativeDefinitions, out |-> <<>>]
    /\ last = Did("main", "new")

\* main: rl.readline gives Ok(line); the line is lexed and exec is entered.
ReadLine ==
    /\ pc = "readline"
    /\ nlines < MaxLines
    /\ \E input \in LinesAt(nlines, line) :
        /\ Set(ProcessLine(M, input))
        /\ line' = input
    /\ nlines' = nlines + 1
    /\ pre' = [stack |-> stack, definitions |-> definitions, out |-> out]
    /\ last' = Did("main", "readline")
    /\ UNCHANGED overflow_checks

\* main: rl.readline gives Err(Eof) or Err(Interrupted); main returns Ok(()).
ReadEnd ==
    /\ pc = "readline"
    /\ pc' = "exited"
    /\ last' = Did("main", "break")
    /\ UNCHANGED <<stack, definitions, out, calls, result, overflow_checks, nlines, line, pre>>

\* The innermost call of exec has a token to take.
Running == pc = "exec" /\ Cur(M).tokens # <<>>

\* (ExecMode::Normal, Token::Number(n))
NormalNumber ==
    /\ Running
    /\ Arm(M) = <<"Normal", "Number">>
    /\ Set(ExecToken(M))
    /\ last' = [arm |-> Arm(M), token |-> Tok(M), stack |-> stack]
    /\ UNCHANGED <<overflow_checks, nlines, line, pre>>

\* (ExecMode::Normal, Token::Op(def))
NormalOp ==
    /\ Running
    /\ Arm(M) = <<"Normal", "Op">>
    /\ CallsExec(M) => Len(calls) < MaxDepth
    /\ Set(ExecToken(M))
    /\ last' = [arm |-> Arm(M), token |-> Tok(M), stack |-> stack]
    /\ UNCHANGED <<overflow_checks, nlines, line, pre>>

\* Normal, Keyword::If
NormalIf ==
    /\ Running
    /\ Arm(M) = <<"Normal", "If">>
    /\ Set(ExecToken(M))
    /\ last' = [arm |-> Arm(M), token |-> Tok(M), stack |-> stack]
    /\ UNCHANGED <<overflow_checks, nlines, line, pre>>

\* Normal, Keyword::Else: todo!()
NormalElse ==
    /\ Running
    /\ Arm(M) = <<"Normal", "Else">>
    /\ Set(ExecToken(M))
    /\ last' = [arm |-> Arm(M), token |-> Tok(M), stack |-> stack]
    /\ UNCHANGED <<overflow_checks, nlines, line, pre>>

\* Normal, Keyword::Then: todo!()
NormalThen ==
    /\ Running
    /\ Arm(M) = <<"Normal", "Then">>
    /\ Set(ExecToken(M))
    /\ last' = [arm |-> Arm(M), token |-> Tok(M), stack |-> stack]
    /\ UNCHANGED <<overflow_checks, nlines, line, pre>>

\* Normal, Keyword::Do: todo!()
NormalDo ==
    /\ Running
    /\ Arm(M) = <<"Normal", "Do">>
    /\ Set(ExecToken(M))
    /\ last' = [arm |-> Arm(M), token |-> Tok(M), stack |-> stack]
    /\ UNCHANGED <<overflow_checks, nlines, line, pre>>

\* (ExecMode::IfTrue(tokens), Token::Number(n))
IfTrueNumber ==
    /\ Running
    /\ Arm(M) = <<"IfTrue", "Number">>
    /\ Set(ExecToken(M))
    /\ last' = [arm |-> Arm(M), token |-> Tok(M), stack |-> stack]
    /\ UNCHANGED <<overflow_checks, nlines, line, pre>>

\* (ExecMode::IfTrue(tokens), Token::Op(op))
IfTrueOp ==
    /\ Running
    /\ Arm(M) = <<"IfTrue", "Op">>
    /\ Set(ExecToken(M))
    /\ last' = [arm |-> Arm(M), token |-> Tok(M), stack |-> stack]
    /\ UNCHANGED <<overflow_checks, nlines, line, pre>>

\* (ExecMode::IfFalse(tokens), Token::Number(n))
IfFalseNumber ==
    /\ Running
    /\ Arm(M) = <<"IfFalse", "Number">>
    /\ Set(ExecToken(M))
    /\ last' = [arm |-> Arm(M), token |-> Tok(M), stack |-> stack]
    /\ UNCHANGED <<overflow_checks, nlines, line, pre>>

\* (ExecMode::IfFalse(tokens), Token::Op(op))
IfFalseOp ==
    /\ Running
    /\ Arm(M) = <<"IfFalse", "Op">>
    /\ Set(ExecToken(M))
    /\ last' = [arm |-> Arm(M), token |-> Tok(M), stack |-> stack]
    /\ UNCHANGED <<overflow_checks, nlines, line, pre>>

\* IfFalse, Keyword::Else
IfFalseElse ==
    /\ Running
    /\ Arm(M) = <<"IfFalse", "Else">>
    /\ Set(ExecToken(M))
    /\ last' = [arm |-> Arm(M), token |-> Tok(M), stack |-> stack]
    /\ UNCHANGED <<overflow_checks, nlines, line, pre>>

\* IfFalse, Keyword::Then
IfFalseThen ==
    /\ Running
    /\ Arm(M) = <<"IfFalse", "Then">>
    /\ CallsExec(M) => Len(calls) < MaxDepth
    /\ Set(ExecToken(M))
    /\ last' = [arm |-> Arm(M), token |-> Tok(M), stack |-> stack]
    /\ UNCHANGED <<overflow_checks, nlines, line, pre>>

\* IfFalse, Keyword::If
IfFalseIf ==
    /\ Running
    /\ Arm(M) = <<"IfFalse", "If">>
    /\ Set(ExecToken(M))
    /\ last' = [arm |-> Arm(M), token |-> Tok(M), stack |-> stack]
    /\ UNCHANGED <<overflow_checks, nlines, line, pre>>

\* IfFalse, Keyword::Do: todo!()
IfFalseDo ==
    /\ Running
    /\ Arm(M) = <<"IfFalse", "Do">>
    /\ Set(ExecToken(M))
    /\ last' = [arm |-> Arm(M), token |-> Tok(M), stack |-> stack]
    /\ UNCHANGED <<overflow_checks, nlines, line, pre>>

\* IfTrue, Keyword::Else
IfTrueElse ==
    /\ Running
    /\ Arm(M) = <<"IfTrue", "Else">>
    /\ Set(ExecToken(M))
    /\ last' = [arm |-> Arm(M), token |-> Tok(M), stack |-> stack]
    /\ UNCHANGED <<overflow_checks, nlines, line, pre>>

\* IfTrue, Keyword::Then
IfTrueThen ==
    /\ Running
    /\ Arm(M) = <<"IfTrue", "Then">>
    /\ CallsExec(M) => Len(calls) < MaxDepth
    /\ Set(ExecToken(M))
    /\ last' = [arm |-> Arm(M), token |-> Tok(M), stack |-> stack]
    /\ UNCHANGED <<overflow_checks, nlines, line, pre>>

\* IfTrue, Keyword::If
IfTrueIf ==
    /\ Running
    /\ Arm(M) = <<"IfTrue", "If">>
    /\ Set(ExecToken(M))
    /\ last' = [arm |-> Arm(M), token |-> Tok(M), stack |-> stack]
    /\ UNCHANGED <<overflow_checks, nlines, line, pre>>

\* IfTrue, Keyword::Do: todo!()
IfTrueDo ==
    /\ Running
    /\ Arm(M) = <<"IfTrue", "Do">>
    /\ Set(ExecToken(M))
    /\ last' = [arm |-> Arm(M), token |-> Tok(M), stack |-> stack]
    /\ UNCHANGED <<overflow_checks, nlines, line, pre>>

\* The loop of the innermost call of exec ends.
ExecReturn ==
    /\ pc = "exec"
    /\ Cur(M).tokens = <<>>
    /\ Set(ExecOk(M))
    /\ last' = Did("exec", "Ok")
    /\ UNCHANGED <<overflow_checks, nlines, line, pre>>

Next ==
    \/ ReadLine
    \/ ReadEnd
    \/ NormalNumber
    \/ NormalOp
    \/ NormalIf
    \/ NormalElse
    \/ NormalThen
    \/ NormalDo
    \/ IfTrueNumber
    \/ IfTrueOp
    \/ IfFalseNumber
    \/ IfFalseOp
    \/ IfFalseElse
    \/ IfFalseThen
    \/ IfFalseIf
    \/ IfFalseDo
    \/ IfTrueElse
    \/ IfTrueThen
    \/ IfTrueIf
    \/ IfTrueDo
    \/ ExecReturn

Spec == Init /\ [][Next]_vars

\* A step of lex, exec or run: what the process does between two readlines.
ExecStep ==
    \/ NormalNumber
    \/ NormalOp
    \/ NormalIf
    \/ NormalElse
    \/ NormalThen
    \/ NormalDo
    \/ IfTrueNumber
    \/ IfTrueOp
    \/ IfFalseNumber
    \/ IfFalseOp
    \/ IfFalseElse
    \/ IfFalseThen
    \/ IfFalseIf
    \/ IfFalseDo
    \/ IfTrueElse
    \/ IfTrueThen
    \/ IfTrueIf
    \/ IfTrueDo
    \/ ExecReturn

\* The program is sequential: while a line is processed the process keeps
\* running. Whether another line comes is up to the line-supplier.
FairSpec == Spec /\ WF_vars(ExecStep)

(***************************************************************************)
(* The claims.                                                             *)
(***************************************************************************)
\* main has processed the whole of the line it read last: exec returned Ok.
LineDone == pc = "readline" /\ nlines > 0

\* The processing of the line read last is over, with Ok or with the process ended.
Final == pc # "exec" /\ nlines > 0

\* lex of the line read last returned its tokens (it neither failed nor panicked).
LexedOk == nlines > 0 /\ ~(pc = "exited" /\ last.arm = <<"main", "readline">>)

\* The machine as it was when the line read last was read.
PreMachine ==
    [stack |-> pre.stack, definitions |-> pre.definitions, out |-> pre.out,
     calls |-> <<>>, result |-> "Ok", pc |-> "readline"]

\* What a line leaves: the stack, the output and Ok or the error.
Outcome(m) == <<m.stack, m.out, m.result>>

LineWords == SplitWhitespace(line)

\* A word that lexes to a Number or to a native Op under defs.
PlainWord(word, defs) ==
    ParseI64(word).ok \/ (word \in DOMAIN defs /\ defs[word].kind = "Native")

\* C1: on a fresh machine the line of if_gauntlet,
\* `1 1 if 2 2 if 3 else 4 then else 5 5 if 6 else 7 then then .`, ends with 3
\* on top of the stack and `.` prints 3.
C1_GauntletPrints3 ==
    (LineDone /\ nlines = 1 /\ line = Gauntlet) =>
        (stack # <<>> /\ Last(stack) = 3 /\ out = <<Display(3)>>)

\* The place of the first `else` of ws, 0 when there is none.
ElseAt(ws) ==
    IF \E i \in 1..Len(ws) : ws[i] = w_else
    THEN CHOOSE i \in 1..Len(ws) : ws[i] = w_else /\ \A j \in 1..(i - 1) : ws[j] # w_else
    ELSE 0

\* ws is `c if A else B then` or `c if A then`, c a literal and A and B made of
\* literals and native words; `if`, `else` and `then` are the keywords (defs
\* has no entry of these names).
SimpleCond(ws, defs) ==
    /\ {w_if, w_else, w_then} \cap DOMAIN defs = {}
    /\ Len(ws) >= 3
    /\ ParseI64(ws[1]).ok
    /\ ws[2] = w_if
    /\ ws[Len(ws)] = w_then
    /\ \A i \in 3..(Len(ws) - 1) : i = ElseAt(ws) \/ PlainWord(ws[i], defs)

\* The branch the condition of such a line selects: A when c is not zero, B
\* (nothing when there is no `else`) when c is zero.
Selected(ws) ==
    LET e == ElseAt(ws)
        A == SubSeq(ws, 3, (IF e = 0 THEN Len(ws) ELSE e) - 1)
        B == IF e = 0 THEN <<>> ELSE SubSeq(ws, e + 1, Len(ws) - 1)
    IN  IF ParseI64(ws[1]).n # 0 THEN A ELSE B

\* C2: a line `c if A else B then` (or `c if A then`) with branches of numbers
\* and native words leaves what the line A alone leaves when c is not zero,
\* and what B alone leaves (nothing without `else`) when c is zero.
C2_SingleConditional ==
    (Final /\ LexedOk /\ SimpleCond(LineWords, pre.definitions)) =>
        Outcome(M) = Outcome(RunLine(PreMachine, Text(Selected(LineWords))))

\* A conditional with else whose condition is 2 has run its first branch.
C2_Witness ==
    /\ LineDone
    /\ SimpleCond(LineWords, pre.definitions)
    /\ ParseI64(LineWords[1]).n = 2
    /\ ElseAt(LineWords) # 0
    /\ Selected(LineWords) = <<Lit(7), w_dup>>
    /\ stack = pre.stack \o <<7, 7>>

\* The words of a line with the body written in place of each use of w.
RECURSIVE Inline(_, _, _)
Inline(ws, w, body) ==
    IF ws = <<>> THEN <<>>
    ELSE (IF Head(ws) = w THEN body ELSE <<Head(ws)>>) \o Inline(Tail(ws), w, body)

Uses(ws, w) == \E i \in 1..Len(ws) : ws[i] = w

UserWords(defs) == {w \in DOMAIN defs : defs[w].kind = "Tokens"}

BodyWords(defs, w) == SplitWhitespace(defs[w].body)

\* The line read last leaves what it leaves with the body of w in place of w.
SameAsInlined(w) ==
    Outcome(M) =
        Outcome(RunLine(PreMachine, Text(Inline(LineWords, w, BodyWords(pre.definitions, w)))))

DidNative(f) == last.arm = <<"Normal", "Op">> /\ last.token.def = Native(f)

\* C4: when a native operation fails with StackUnderflow or DivByZero, the
\* stack is as it was before the operation was called.
C4_FailedNativeKeepsStack ==
    ( /\ last.arm = <<"Normal", "Op">>
      /\ last.token.def.kind = "Native"
      /\ result \in {"StackUnderflow", "DivByZero"} ) => stack = last.stack

\* C5: an `else` or a `then` met in Normal mode makes exec return UnbalancedIf,
\* with the stack as it was before the token.
C5_UnbalancedIfReturned ==
    last.arm \in {<<"Normal", "Else">>, <<"Normal", "Then">>} =>
        (result = "UnbalancedIf" /\ stack = last.stack)

\* C6 as stated: whenever the processing of a line ends in WordNotDefined, no
\* token of the line has been executed: the stack and the output are those
\* before the line.
C6_NoTokenExecuted ==
    result = "WordNotDefined" => (stack = pre.stack /\ out = pre.out)

\* C6 as amended: when lex of the line itself fails with WordNotDefined, no
\* token of the line was executed (the stack and the output are those before
\* the line); WordNotDefined raised later is raised by run, lexing the body of
\* a Tokens definition.
C6_LineLexFailure ==
    result = "WordNotDefined" =>
        \/ last.arm = <<"main", "readline">> /\ stack = pre.stack /\ out = pre.out
        \/ last.arm = <<"Normal", "Op">> /\ last.token.def.kind = "Tokens"

\* lex of a line of several words failed on an undefined word.
C6_Witness ==
    /\ result = "WordNotDefined"
    /\ last.arm = <<"main", "readline">>
    /\ line = Text(<<Lit(5), w_foo>>)
    /\ stack = <<>>

\* The definition blocks `: name body ;` of a line that are closed, in order,
\* each as the words between its `:` and its `;`.
RECURSIVE BlocksOf(_, _, _, _)
BlocksOf(ws, open, cur, acc) ==
    IF ws = <<>> THEN acc
    ELSE IF ~open THEN BlocksOf(Tail(ws), Head(ws) = w_colon, <<>>, acc)
    ELSE IF Head(ws) = w_semi THEN BlocksOf(Tail(ws), FALSE, <<>>, Append(acc, cur))
    ELSE BlocksOf(Tail(ws), TRUE, Append(cur, Head(ws)), acc)

Blocks == BlocksOf(LineWords, FALSE, <<>>, <<>>)

\* The last block of the line that defines name, 0 when none does.
LastBlock(name) ==
    IF \E i \in 1..Len(Blocks) : Blocks[i][1] = name
    THEN CHOOSE i \in 1..Len(Blocks) :
            Blocks[i][1] = name /\ \A j \in (i + 1)..Len(Blocks) : Blocks[j][1] # name
    ELSE 0

\* lex has returned the tokens of the line and exec has not yet taken one.
JustLexed == pc = "exec" /\ last.arm = <<"main", "readline">>

\* After lex, each name the line defines is bound to the body of its last
\* block on the line, whatever it was bound to before, and no other entry changed.
Overwritten ==
    JustLexed =>
        /\ DOMAIN definitions =
              (DOMAIN pre.definitions) \cup {Blocks[i][1] : i \in 1..Len(Blocks)}
        /\ \A name \in DOMAIN definitions :
              IF LastBlock(name) # 0
              THEN definitions[name] = Tokens(Text(Tail(Blocks[LastBlock(name)])))
              ELSE definitions[name] = pre.definitions[name]

\* A use of name lexed now is an Op holding the entry the dictionary has now.
ResolvesToEntry(name) ==
    lex(definitions, name) = LexRet("Ok", <<>>, <<Op(definitions[name])>>, definitions)

\* The names the line read last has defined again.
Redefined ==
    {name \in (DOMAIN definitions) \cap (DOMAIN pre.definitions) :
        definitions[name] # pre.definitions[name]}

\* C7 as stated: a redefinition overwrites the entry, and every use of the
\* name lexed after it resolves to the new body.
C7_EveryUseResolves ==
    Overwritten /\ \A name \in Redefined : ResolvesToEntry(name)

\* C7 as amended: a redefinition overwrites the entry (a native one too); a use
\* lexed after it resolves to the new body when the name is no integer literal;
\* and a user word invoked after it leaves what its body text leaves when
\* lexed then, so the uses in bodies defined earlier follow the redefinition
\* (of a word that invokes itself without end there is nothing to compare).
C7_UseResolvesUnlessLiteral ==
    /\ Overwritten
    /\ \A name \in DOMAIN definitions : ~ParseI64(name).ok => ResolvesToEntry(name)
    /\ (LineDone /\ result = "Ok") =>
          \A v \in UserWords(definitions) :
              (~ParseI64(v).ok /\ "exhausted" \notin {RunLine(M, v).pc,
                                                         RunLine(M, definitions[v].body).pc})
                  => Outcome(RunLine(M, v)) = Outcome(RunLine(M, definitions[v].body))

\* w has been defined again, and v, defined before that as `w`, has pushed
\* what the new body of w pushes.
C7_Witness ==
    /\ LineDone
    /\ line = Text(<<w_colon, w_w, Lit(2), w_semi, w_v>>)
    /\ pre.definitions[w_w] = Tokens(Lit(1))
    /\ definitions[w_w] = Tokens(Lit(2))
    /\ definitions[w_v] = Tokens(w_w)
    /\ stack = <<2>>

\* The quotient of a by b, b not zero, truncated toward zero.
TruncQuot(a, b) ==
    LET q == (IF a < 0 THEN -a ELSE a) \div (IF b < 0 THEN -b ELSE b)
    IN  IF (a < 0) = (b < 0) THEN q ELSE -q

\* The two operands of the native operation called last, b on top, and the
\* stack below them.
OperandA == last.stack[Len(last.stack) - 1]

OperandB == last.stack[Len(last.stack)]

Below == SubSeq(last.stack, 1, Len(last.stack) - 2)

\* C8: with a and b on the stack, b on top, `/` fails with DivByZero exactly
\* when b = 0, and for b # 0 replaces them with a / b truncated toward zero.
C8_DivByZeroOnlyForZero ==
    (DidNative("div") /\ Len(last.stack) >= 2) =>
        /\ (result = "DivByZero") <=> (OperandB = 0)
        /\ OperandB # 0 =>
              (result = "Ok" /\ stack = Append(Below, TruncQuot(OperandA, OperandB)))

\* C9: with a and b on the stack, b on top, `+` replaces them with a + b, `-`
\* with a - b and `*` with a * b; the operation succeeds and leaves the values
\* below them as they were.
C9_ArithmeticExact ==
    /\ (DidNative("add") /\ Len(last.stack) >= 2) =>
          (result = "Ok" /\ stack = Append(Below, OperandA + OperandB))
    /\ (DidNative("sub") /\ Len(last.stack) >= 2) =>
          (result = "Ok" /\ stack = Append(Below, OperandA - OperandB))
    /\ (DidNative("mul") /\ Len(last.stack) >= 2) =>
          (result = "Ok" /\ stack = Append(Below, OperandA * OperandB))

\* 1 when p holds and 0 when it does not.
Flag(p) == IF p THEN 1 ELSE 0

\* C10: with lhs and rhs on the stack, rhs on top, `=`, `<>`, `<` and `>`
\* replace them with 1 when lhs = rhs, lhs # rhs, lhs < rhs, lhs > rhs, and
\* with 0 otherwise; a comparison pushes nothing else.
C10_ComparisonsPushFlag ==
    /\ (DidNative("eq") /\ Len(last.stack) >= 2) =>
          (result = "Ok" /\ stack = Append(Below, Flag(OperandA = OperandB)))
    /\ (DidNative("ne") /\ Len(last.stack) >= 2) =>
          (result = "Ok" /\ stack = Append(Below, Flag(OperandA # OperandB)))
    /\ (DidNative("lt") /\ Len(last.stack) >= 2) =>
          (result = "Ok" /\ stack = Append(Below, Flag(OperandA < OperandB)))
    /\ (DidNative("gt") /\ Len(last.stack) >= 2) =>
          (result = "Ok" /\ stack = Append(Below, Flag(OperandA > OperandB)))
    /\ \A f \in {"eq", "ne", "lt", "gt"} :
          (DidNative(f) /\ Len(last.stack) < 2) =>
              (result = "StackUnderflow" /\ stack = SubSeq(last.stack, 1, Len(stack)))

\* `<` has compared 2 with 7 and pushed 1.
C10_Witness ==
    /\ DidNative("lt")
    /\ last.stack = <<2, 7>>
    /\ stack = <<1>>

\* What lex of the line read last returned, seen right after main called it:
\* "Tokens" when exec was entered with them, else how the process ended.
LineLexOutcome == IF pc = "exec" THEN "Tokens" ELSE result

\* C11: lex has two outcomes for every line and dictionary: it returns its
\* tokens or it fails with WordNotDefined; it never ends the process another
\* way, not for `: ;` and not for `: noop ;`, which installs an empty body.
C11_LexTokensOrWordNotDefined ==
    last.arm = <<"main", "readline">> =>
        /\ LineLexOutcome \in {"Tokens", "WordNotDefined"}
        /\ line = Text(<<w_colon, w_noop, w_semi>>) =>
              (LineLexOutcome = "Tokens" /\ definitions[w_noop] = Tokens(<<>>))

\* The stack the line input leaves, and Ok or the error, read in the state
\* the line read last was read in.
LeftBy(input) ==
    LET m == RunLine(PreMachine, input) IN <<m.stack, m.result>>

\* C12: the tokens of a branch that is not selected have no effect on the
\* stack: `p 0 if X then` leaves the stack of `p 0 if then`, and
\* `p c if A else X then` with c not zero leaves the stack of
\* `p c if A else then`, for every well-nested X of numbers, words and
\* conditionals.
C12_SkippedBranchHasNoEffect ==
    Final =>
        \A p \in SkipPrefixes, X \in SkippedBodies :
            /\ line = SkipThenLine(p, X) =>
                  <<stack, result>> = LeftBy(SkipThenLine(p, <<>>))
            /\ \A c \in SkipConds, A \in SkipTaken :
                  line = SkipElseLine(p, c, A, X) =>
                      <<stack, result>> = LeftBy(SkipElseLine(p, c, A, <<>>))

\* The mode_stack of a call is not empty, Normal is at its bottom and nowhere else.
ModeStackShape(ms) ==
    /\ Len(ms) >= 1
    /\ ms[1].kind = "Normal"
    /\ \A k \in 2..Len(ms) : ms[k].kind \in {"IfTrue", "IfFalse"}

\* The depth of the mode_stack of the j-th active call, before and after a step.
Depth(j) == Len(calls[j].mode_stack)

DepthAfter(j) == Len(calls'[j].mode_stack)

\* What a step does to the depths: a call that is entered starts at depth 1;
\* in the call that takes a token, an `if` that finds a condition adds one
\* frame, a `then` met in a capture frame removes one, and every other token
\* (an `if` that fails too) leaves the depth as it is; the calls below it keep
\* their mode stacks.
DepthStep ==
    /\ Len(calls') > Len(calls) => Last(calls').mode_stack = <<Normal>>
    /\ Running =>
          /\ \A j \in 1..(Len(calls) - 1) : calls'[j] = calls[j]
          /\ DepthAfter(Len(calls)) =
                Depth(Len(calls))
                  + (IF Arm(M)[2] = "If" /\ stack # <<>> THEN 1 ELSE 0)
                  - (IF Arm(M) \in {<<"IfTrue", "Then">>, <<"IfFalse", "Then">>} THEN 1 ELSE 0)

\* C13: at every step of every exec call the mode stack is not empty, its
\* bottom frame is Normal and no other frame is; a call starts at depth 1, each
\* `if` processed with success pushes exactly one frame and each `then`
\* processed in a capture frame pops exactly one, so the depth of a call is
\* 1 + (its `if`s processed) - (its `then`s processed).
C13_ModeStackDepth ==
    /\ [](\A j \in 1..Len(calls) : ModeStackShape(calls[j].mode_stack))
    /\ [][DepthStep]_vars

\* A `then` has popped the inner of two open frames of the line's call, whose
\* body is being executed by a new call.
C13_Witness ==
    /\ pc = "exec"
    /\ last.arm = <<"IfTrue", "Then">>
    /\ Len(calls) = 2
    /\ Len(calls[1].mode_stack) = 2
    /\ calls[2].mode_stack = <<Normal>>

\* The step taken last was an `if` taken by the loop of exec, in any mode.
DidIf == last.arm \in {<<"Normal", "If">>, <<"IfTrue", "If">>, <<"IfFalse", "If">>}

KeywordNamed(word) ==
    CASE word = w_if -> "If"
      [] word = w_else -> "Else"
      [] word = w_then -> "Then"
      [] word = w_do -> "Do"

\* What a word read in Interpreting mode becomes, in the order of the claim:
\* an integer literal, then a dictionary entry, then a keyword, then `:`.
Resolution(word, defs) ==
    IF ParseI64(word).ok THEN [as |-> "token", token |-> Number(ParseI64(word).n)]
    ELSE IF word \in DOMAIN defs THEN [as |-> "token", token |-> Op(defs[word])]
    ELSE IF word \in {w_if, w_else, w_then, w_do}
        THEN [as |-> "token", token |-> Keyword(KeywordNamed(word))]
    ELSE IF word = w_colon THEN [as |-> "defining", token |-> Keyword("None")]
    ELSE [as |-> "undefined", token |-> Keyword("None")]

\* The words of the line that stand before its first definition block: they
\* are read in Interpreting mode with the dictionary the line was read with.
Interpreted ==
    LET opens == {i \in 1..Len(LineWords) :
                     Resolution(LineWords[i], pre.definitions).as = "defining"}
    IN  IF opens = {} THEN LineWords
        ELSE SubSeq(LineWords, 1, (CHOOSE i \in opens : \A j \in opens : i <= j) - 1)

\* C15: in Interpreting mode lex resolves each word as the first that applies
\* of: integer literal, dictionary entry, keyword, `:`, and fails with
\* WordNotDefined when none does; so a word that parses as an integer is a
\* Number though the dictionary has an entry of that name, and an entry named
\* `if`, `else`, `then`, `do` or `:` comes before the keyword or the marker.
C15_LexResolutionOrder ==
    (last.arm = <<"main", "readline">> /\ nlines > 0) =>
        IF \E i \in 1..Len(Interpreted) :
              Resolution(Interpreted[i], pre.definitions).as = "undefined"
        THEN pc = "exited" /\ result = "WordNotDefined"
        ELSE /\ Interpreted = LineWords => pc = "exec"
             /\ pc = "exec" =>
                   /\ Len(calls[1].tokens) >= Len(Interpreted)
                   /\ Interpreted = LineWords => Len(calls[1].tokens) = Len(LineWords)
                   /\ \A i \in 1..Len(Interpreted) :
                         calls[1].tokens[i] = Resolution(Interpreted[i], pre.definitions).token

\* With `if` defined as `7`, the line `if` was lexed to the Op of that entry.
C15_Witness ==
    /\ JustLexed
    /\ line = Text(<<w_if>>)
    /\ w_if \in DOMAIN pre.definitions
    /\ pre.definitions[w_if] = Tokens(Lit(7))
    /\ calls[1].tokens = <<Op(Tokens(Lit(7)))>>

\* With `5` defined as `1`, the 5 of the line `5 .` was lexed to Number(5).
C15_WitnessLiteral ==
    /\ JustLexed
    /\ line = Text(<<Lit(5), w_print>>)
    /\ Lit(5) \in DOMAIN pre.definitions
    /\ pre.definitions[Lit(5)] = Tokens(Lit(1))
    /\ Head(calls[1].tokens) = Number(5)

\* C16: an Op holds the Definition the dictionary had for its word when the
\* word was lexed. On `: f B1 ; 7 f : f B2 ; f` the first f is lexed to the Op
\* of B1 and the second to the Op of B2, and the line leaves what `7 B1 B2`
\* leaves when neither body uses f; `: f 1 ; f : f 2 ; f` pushes 1 then 2; and
\* on `w : w 2 ; w` the first w holds the entry w had before the line.
C16_OpHoldsEntryAtLexTime ==
    /\ \A b1 \in SnapBodies, b2 \in SnapBodies :
          line = SnapLine(b1, b2) =>
              /\ JustLexed =>
                    calls[1].tokens = <<Number(7), Op(Tokens(Text(b1))), Op(Tokens(Text(b2)))>>
              /\ (Final /\ w_f \notin {Head(b) : b \in {b1, b2} \ {<<>>}}) =>
                    <<stack, result>> = LeftBy(Text(<<Lit(7)>> \o b1 \o b2))
    /\ line = Text(<<w_colon, w_f, Lit(1), w_semi, w_f, w_colon, w_f, Lit(2), w_semi, w_f>>) =>
          /\ JustLexed => calls[1].tokens = <<Op(Tokens(Lit(1))), Op(Tokens(Lit(2)))>>
          /\ Final => (result = "Ok" /\ stack = pre.stack \o <<1, 2>>)
    /\ (JustLexed /\ line = Text(<<w_w, w_colon, w_w, Lit(2), w_semi, w_w>>)) =>
          calls[1].tokens = <<Op(pre.definitions[w_w]), Op(Tokens(Lit(2)))>>

\* `: f 1 ; f : f 2 ; f` has pushed 1, then 2.
C16_Witness ==
    /\ LineDone
    /\ line = Text(<<w_colon, w_f, Lit(1), w_semi, w_f, w_colon, w_f, Lit(2), w_semi, w_f>>)
    /\ definitions[w_f] = Tokens(Lit(2))
    /\ stack = <<1, 2>>

\* C17: the native definitions are installed at construction and never change:
\* in every reachable state each of the twelve native words is bound in the
\* dictionary to the Native operation Machine::new bound it to.
C17_NativesImmutable ==
    \A word \in NativeWords :
        word \in DOMAIN definitions /\ definitions[word] = NativeDefinitions[word]

\* The user words that running the body text invokes: its words that are no
\* integer literals and are bound to Tokens definitions.
Invokes(body) ==
    {v \in UserWords(definitions) :
        ~ParseI64(v).ok /\ Uses(SplitWhitespace(body), v)}

\* The user words reachable from the words of S in at most n invocations more.
RECURSIVE Reachable(_, _)
Reachable(S, n) ==
    IF n = 0 THEN S
    ELSE Reachable(S \cup UNION {Invokes(definitions[v].body) : v \in S}, n - 1)

ReachableFrom(body) == Reachable(Invokes(body), Cardinality(UserWords(definitions)))

\* v invokes itself, directly or through other words.
SelfReferential(v) == v \in ReachableFrom(definitions[v].body)

\* Some user word reachable from the tokens of the line invokes itself.
LineRecursive ==
    \E i \in 1..Len(calls[1].tokens) :
        LET token == calls[1].tokens[i]
        IN  /\ token.type = "Op"
            /\ token.def.kind = "Tokens"
            /\ \E v \in ReachableFrom(token.def.body) : SelfReferential(v)

\* `: cd dup if 1 - cd then ;`
CdBody == Text(<<w_dup, w_if, Lit(1), w_sub, w_cd, w_then>>)

\* A line that starts cd, defined as `dup if 1 - cd then`, with a value n >= 0.
CdLine ==
    /\ \E n \in {k \in Starts : k >= 0} : line = Text(<<Lit(n), w_cd>>)
    /\ w_cd \in DOMAIN definitions
    /\ definitions[w_cd] = Tokens(CdBody)

\* C18: the processing of a line ends, with Ok or with an error, when no user
\* word reachable from the line invokes itself directly or through other
\* words; and cd, which invokes itself only in a branch, started with a value
\* n >= 0 ends too, with Ok and 0 on the stack.
C18_LineTerminates ==
    /\ (JustLexed /\ (LineRecursive => CdLine)) ~> (pc # "exec")
    /\ []((Final /\ CdLine) => (result = "Ok" /\ stack = <<0>>))

\* cd, started with 2, has returned with 0 on the stack.
C18_Witness ==
    /\ LineDone
    /\ line = Text(<<Lit(2), w_cd>>)
    /\ CdLine
    /\ stack = <<0>>

\* The loop of the innermost call is over and conditional frames are open in it.
EndsOpen == pc = "exec" /\ Cur(M).tokens = <<>> /\ Len(Cur(M).mode_stack) > 1

\* What the step from such a state does: the call returns Ok to its caller (to
\* main, which waits for the next line, when it is the call of the line) with
\* the stack and the output as they are: the tokens in the open frames are
\* dropped. And every call that is entered starts with Normal alone.
OpenFramesStep ==
    /\ EndsOpen =>
          /\ result' = "Ok" /\ stack' = stack /\ out' = out
          /\ calls' = Front(calls)
          /\ pc' = IF Len(calls) = 1 THEN "readline" ELSE "exec"
    /\ Len(calls') > Len(calls) => Last(calls').mode_stack = <<Normal>>

\* C19: a call of exec whose tokens end with conditional frames open returns
\* Ok, the tokens buffered in the frames are never executed and the conditions
\* stay popped (each line of OpenLines leaves the 5 it pushed first and prints
\* nothing); the frames do not outlive the call: every call starts from Normal
\* alone, and a `then` of the next line is met in Normal mode.
C19_OpenFramesDropped ==
    /\ [][OpenFramesStep]_vars
    /\ []((Final /\ nlines = 1 /\ line \in OpenLines) =>
            (result = "Ok" /\ stack = <<5>> /\ out = <<>>))
    /\ []((line \in {Text(<<w_then>>), Text(<<Lit(9), w_then>>)}
            /\ last.token = Keyword("Then")) => last.arm = <<"Normal", "Then">>)

\* After a line that left a conditional open with 5 on the stack, the `then`
\* of the next line was taken in Normal mode.
C19_Witness ==
    /\ nlines = 2
    /\ line = Text(<<w_then>>)
    /\ pre.stack = <<5>>
    /\ pre.out = <<>>
    /\ last.arm = <<"Normal", "Then">>

\* `a 1 if 2 if 3 then then`
OrderLine(a) == Text(<<Lit(a), Lit(1), w_if, Lit(2), w_if, Lit(3), w_then, w_then>>)

\* `1 1 if 2 . if 3 . then then`
OrderPrintLine ==
    Text(<<Lit(1), Lit(1), w_if, Lit(2), w_print, w_if, Lit(3), w_print, w_then, w_then>>)

====
